---- MODULE Spec2Model ----
(***************************************************************************)
(* Furniture customizer: the canvas editor's undo/redo history             *)
(* (CanvasWorkspace component) and the REST routes over the projects and   *)
(* canvas_states tables.                                                   *)
(***************************************************************************)
EXTENDS Integers, Sequences, FiniteSets, TLC

(* ------------------------------------------------------------------ *)
(* Bounds of the model and constants of the program                    *)
(* ------------------------------------------------------------------ *)

\* historyRef.current.length > 50
MaxHistory == 50

\* shapes (rectangles, circles) on the canvas at one time
MaxShapes == 1

\* user operations are explored while the history entries plus the outstanding
\* loads are fewer than this
EditWindow == 4

\* undo and redo calls in one long run (SpecCap)
MaxLoads == 2

NoImage == ""
Images == {"chair.png"}

NoColor == ""
DefaultFill == "#C0C0C0"
Palette == {"#8B4513"}

\* opacity in percent, as setOpacity receives it (the object stores opacity / 100)
InitialOpacity == 70
Opacities == {70, 100}

InitialBlend == "multiply"
BlendModes == {"multiply", "normal"}

RectLeft == 100
CircleLeft == 200
Positions == {100, 200}

\* the ids a request may name in its path: 1..MaxIds
MaxIds == 2

\* requests whose handler is between two database calls at one time
MaxRequests == 2

\* requests accepted in one run; the clock that now() and new Date() read
\* advances by one with each of them
MaxClock == 3

Null == 0
Missing == ""
ProjectNames == {"sofa", "chair"}

ALLOWED_MIME_TYPES ==
    {"image/jpeg", "image/jpg", "image/png", "image/gif", "image/webp"}

\* multipart bodies of the upload route: no file part, an image, a file that
\* is no image, an image of more than 10MB
UploadFiles ==
    {[present |-> FALSE, mimetype |-> Missing, large |-> FALSE],
     [present |-> TRUE, mimetype |-> "image/png", large |-> FALSE],
     [present |-> TRUE, mimetype |-> "text/html", large |-> FALSE],
     [present |-> TRUE, mimetype |-> "image/png", large |-> TRUE]}

\* a timestamp key that is absent, and one a client puts into a body
NoTime == -1
ClientTime == 9

\* request bodies of POST /api/projects: the name alone, a name with id,
\* createdAt and updatedAt of the client's choosing, and no name
ProjectBodies ==
    {[name |-> "sofa", id |-> Null, createdAt |-> NoTime, updatedAt |-> NoTime],
     [name |-> "chair", id |-> 1, createdAt |-> ClientTime, updatedAt |-> ClientTime],
     [name |-> Missing, id |-> Null, createdAt |-> NoTime, updatedAt |-> NoTime]}
DefaultZoom == "1"

\* request bodies of the canvas route: without zoom, with zoom, without canvasJson
CanvasBodies ==
    {[canvasJson |-> "{rect}", zoom |-> Missing],
     [canvasJson |-> "{circle}", zoom |-> "2"],
     [canvasJson |-> Missing, zoom |-> Missing]}

\* Home keeps at most RecentLimit recent colors
RecentLimit == 8

\* the palette of Home: one color more than the recent colors can hold
ColorItems ==
    {[id |-> n, hexColor |-> IF n % 2 = 1 THEN "#8B4513" ELSE DefaultFill] :
        n \in 1..(RecentLimit + 1)}

\* selections of Home: the first ones go down the palette, MaxFree more are free
MaxFree == 3

VARIABLES
    imageUrl,       \* the imageUrl prop
    imgLoading,     \* Image.fromURL(imageUrl) of the current canvas has not resolved
    selectedColor,  \* the selectedColor prop
    canvas,         \* fabricCanvasRef.current: its objects, bottom to top
    active,         \* index of the active object in canvas, 0 when none
    history,        \* historyRef.current
    historyIndex,   \* historyIndexRef.current
    pending,        \* snapshots whose loadFromJSON promise has not resolved
    lastOp,         \* the handler or callback that ran last
    loads,          \* undo and redo calls so far, counted in the long runs only
    mark,           \* the history, cursor and canvas content before the undo of a
                    \* round trip, and how far the round trip has come
    recentColorsState,  \* the recentColors state of Home
    selections,     \* the colors handleColorSelect was called with, oldest first
    projects,       \* rows of table projects
    projectImages,  \* rows of table project_images
    colorRegions,   \* rows of table color_regions
    recentColors,   \* rows of table recent_colors
    canvasStates,   \* rows of table canvas_states
    nextId,         \* the next id gen_random_uuid() returns
    clock,          \* the time now() and new Date() return: requests accepted so far
    inflight,       \* per request slot: the handler waiting for its next database call
    uploads,        \* names of the files in the uploads directory
    views,          \* per request slot: what the database held for the project of
                    \* the GET /api/projects/:id in flight, at each step so far
    call,           \* the handler step that ran last: its name, :id and body validity
    resp            \* the response sent last

cvars == <<imageUrl, imgLoading, selectedColor, canvas, active, history,
           historyIndex, pending>>

db == <<projects, projectImages, colorRegions, recentColors, canvasStates>>

svars == <<db, uploads, nextId, clock, inflight, views, call, resp>>

hvars == <<mark, recentColorsState, selections>>

vars == <<cvars, lastOp, loads, hvars, svars>>

(* ------------------------------------------------------------------ *)
(* Canvas objects and their serialization                              *)
(* ------------------------------------------------------------------ *)

Min(a, b) == IF a < b THEN a ELSE b

NewRect(color) ==
    [type |-> "rect", src |-> "", left |-> RectLeft,
     fill |-> IF color = NoColor THEN DefaultFill ELSE color,
     opacity |-> InitialOpacity, gco |-> InitialBlend, selectable |-> TRUE]

NewCircle(color) ==
    [type |-> "circle", src |-> "", left |-> CircleLeft,
     fill |-> IF color = NoColor THEN DefaultFill ELSE color,
     opacity |-> InitialOpacity, gco |-> "multiply", selectable |-> TRUE]

NewImage(url) ==
    [type |-> "image", src |-> url, left |-> 0, fill |-> "",
     opacity |-> 100, gco |-> "source-over", selectable |-> FALSE]

\* toJSON of one object: the default property list has no "selectable"
ToObject(o) ==
    [type |-> o.type, src |-> o.src, left |-> o.left, fill |-> o.fill,
     opacity |-> o.opacity, gco |-> o.gco]

\* JSON.stringify(canvas.toJSON()): the objects, bottom to top
ToJSON(c) == [i \in 1..Len(c) |-> ToObject(c[i])]

\* an object enlivened from its serialization: selectable takes its default
FromObject(j) ==
    [type |-> j.type, src |-> j.src, left |-> j.left, fill |-> j.fill,
     opacity |-> j.opacity, gco |-> j.gco, selectable |-> TRUE]

FromJSON(json) == [i \in 1..Len(json) |-> FromObject(json[i])]

HasImage(json) == \E i \in 1..Len(json) : json[i].type = "image"

NumShapes(c) == Cardinality({i \in 1..Len(c) : c[i].type # "image"})

(* ------------------------------------------------------------------ *)
(* The history buffer                                                  *)
(* ------------------------------------------------------------------ *)

\* Array.prototype.slice(0, n) for n >= 0
Slice(h, n) == SubSeq(h, 1, Min(n, Len(h)))

\* saveHistory that trims one entry too late
SaveHistory_LateTrim(h, i, c) ==
    LET json == ToJSON(c)
        i1 == i + 1
        h1 == Append(Slice(h, i1), json)
    IN  IF Len(h1) > MaxHistory + 1
        THEN [h |-> Tail(h1), i |-> i1 - 1]
        ELSE [h |-> h1, i |-> i1]

\* saveHistory that keeps the entries after the cursor
SaveHistory_NoSlice(h, i, c) ==
    LET json == ToJSON(c)
        i1 == i + 1
        h1 == Append(h, json)
    IN  IF Len(h1) > MaxHistory
        THEN [h |-> Tail(h1), i |-> i1 - 1]
        ELSE [h |-> h1, i |-> i1]

\* saveHistory that shifts the array and leaves the cursor where it is
SaveHistory_NoDecrement(h, i, c) ==
    LET json == ToJSON(c)
        i1 == i + 1
        h1 == Append(Slice(h, i1), json)
    IN  IF Len(h1) > MaxHistory
        THEN [h |-> Tail(h1), i |-> i1]
        ELSE [h |-> h1, i |-> i1]

\* saveHistory that pushes the snapshot and leaves the cursor where it is
SaveHistory_NoCursor(h, i, c) ==
    LET json == ToJSON(c)
        h1 == Append(Slice(h, i + 1), json)
    IN  IF Len(h1) > MaxHistory
        THEN [h |-> Tail(h1), i |-> i]
        ELSE [h |-> h1, i |-> i]

\* saveHistory on history h with cursor i and canvas content c
SaveHistory(h, i, c) ==
    LET json == ToJSON(c)
        i1 == i + 1
        h1 == Append(Slice(h, i1), json)
    IN  IF Len(h1) > MaxHistory
        THEN [h |-> Tail(h1), i |-> i1 - 1]
        ELSE [h |-> h1, i |-> i1]

\* saveHistory called k times in a row on the same canvas content
RECURSIVE SaveTimes(_, _, _, _)
SaveTimes(h, i, c, k) ==
    IF k = 0 THEN [h |-> h, i |-> i]
    ELSE LET s == SaveHistory(h, i, c) IN SaveTimes(s.h, s.i, c, k - 1)

Saved(k) ==
    LET s == SaveTimes(history, historyIndex, canvas', k)
    IN  /\ history' = s.h
        /\ historyIndex' = s.i

\* a loadFromJSON that resolves in the same turn of the event loop: no user event in between
Busy == \E n \in 1..Len(pending) : ~HasImage(pending[n])

ActiveShape == active # 0 /\ canvas[active].type # "image"

(* ------------------------------------------------------------------ *)
(* Operations of the canvas component                                  *)
(* ------------------------------------------------------------------ *)

\* the component mounted with the given imageUrl prop
Mounted(url) ==
    /\ imageUrl = url
    /\ imgLoading = (url # NoImage)
    /\ selectedColor = NoColor
    /\ canvas = <<>>
    /\ active = 0
    /\ history = <<>>
    /\ historyIndex = -1
    /\ pending = <<>>
    /\ lastOp = "mount"
    /\ loads = 0

\* no undo waits for its redo
NoMark == [stage |-> "none", history |-> <<>>, historyIndex |-> -1, canvas |-> <<>>]

\* Home before the first color is selected, and its CanvasWorkspace
Rendered ==
    /\ recentColorsState = <<>>
    /\ selections = <<>>
    /\ mark = NoMark

NoRequest ==
    [route |-> "idle", id |-> Null, pc |-> 0, canvasJson |-> Missing,
     zoom |-> Missing, project |-> {}, images |-> {}, regions |-> {},
     existing |-> {}]

NoResponse ==
    [route |-> "none", id |-> Null, status |-> 0, project |-> {}, images |-> {},
     regions |-> {}, canvas |-> {}, list |-> <<>>, path |-> {}]

\* the server started on an empty database
ServerStarted ==
    /\ projects = {}
    /\ projectImages = {}
    /\ colorRegions = {}
    /\ recentColors = {}
    /\ canvasStates = {}
    /\ uploads = {}
    /\ nextId = 1
    /\ clock = 0
    /\ inflight = [r \in 1..MaxRequests |-> NoRequest]
    /\ views = [r \in 1..MaxRequests |-> {}]
    /\ call = [step |-> "listen", id |-> Null, valid |-> TRUE]
    /\ resp = NoResponse

Init ==
    /\ \E url \in {NoImage, "sofa.png"} : Mounted(url)
    /\ Rendered
    /\ ServerStarted

\* Image.fromURL(imageUrl).then: canvas.add(img) fires object:added
ImageLoaded ==
    /\ imgLoading
    /\ imgLoading' = FALSE
    /\ canvas' = Append(canvas, NewImage(imageUrl))
    /\ Saved(1)
    /\ UNCHANGED <<imageUrl, selectedColor, active, pending>>

AddShape(obj) ==
    /\ ~Busy
    /\ canvas' = Append(canvas, obj)
    /\ active' = Len(canvas) + 1
    /\ Saved(2)
    /\ UNCHANGED <<imageUrl, imgLoading, selectedColor, pending>>

AddRectangle == AddShape(NewRect(selectedColor))

AddCircle == AddShape(NewCircle(selectedColor))

\* undo that reads the snapshot before it moves the cursor
undo_ReadFirst ==
    /\ ~Busy
    /\ IF historyIndex <= 0
       THEN UNCHANGED <<historyIndex, pending>>
       ELSE /\ historyIndex' = historyIndex - 1
            /\ pending' = Append(pending, history[historyIndex + 1])
    /\ UNCHANGED <<imageUrl, imgLoading, selectedColor, canvas, active, history>>

\* redo that reads the snapshot before it moves the cursor
redo_ReadFirst ==
    /\ ~Busy
    /\ IF historyIndex >= Len(history) - 1
       THEN UNCHANGED <<historyIndex, pending>>
       ELSE /\ historyIndex' = historyIndex + 1
            /\ pending' = Append(pending, history[historyIndex + 1])
    /\ UNCHANGED <<imageUrl, imgLoading, selectedColor, canvas, active, history>>

\* undo returns early unless historyIndexRef.current > 0
undo ==
    /\ ~Busy
    /\ IF historyIndex <= 0
       THEN UNCHANGED <<historyIndex, pending>>
       ELSE /\ historyIndex' = historyIndex - 1
            /\ pending' = Append(pending, history[historyIndex' + 1])
    /\ UNCHANGED <<imageUrl, imgLoading, selectedColor, canvas, active, history>>

\* redo returns early unless historyIndexRef.current < length - 1
redo ==
    /\ ~Busy
    /\ IF historyIndex >= Len(history) - 1
       THEN UNCHANGED <<historyIndex, pending>>
       ELSE /\ historyIndex' = historyIndex + 1
            /\ pending' = Append(pending, history[historyIndex' + 1])
    /\ UNCHANGED <<imageUrl, imgLoading, selectedColor, canvas, active, history>>

Remove(s, n) == [i \in 1..(Len(s) - 1) |-> IF i < n THEN s[i] ELSE s[i + 1]]

\* a loadFromJSON promise resolves: clear(), add(...objects), object:added per object
LoadResolved(n) ==
    /\ n \in 1..Len(pending)
    /\ pending' = Remove(pending, n)
    /\ canvas' = FromJSON(pending[n])
    /\ active' = 0
    /\ Saved(Len(pending[n]))
    /\ UNCHANGED <<imageUrl, imgLoading, selectedColor>>

\* the selectedColor effect: runs when the prop changes
SelectColor(color) ==
    /\ ~Busy
    /\ color # selectedColor
    /\ selectedColor' = color
    /\ IF ActiveShape
       THEN /\ canvas' = [canvas EXCEPT ![active].fill = color]
            /\ Saved(1)
       ELSE UNCHANGED <<canvas, history, historyIndex>>
    /\ UNCHANGED <<imageUrl, imgLoading, active, pending>>

setOpacity(opacity) ==
    /\ ~Busy
    /\ IF ActiveShape
       THEN /\ canvas' = [canvas EXCEPT ![active].opacity = opacity]
            /\ Saved(1)
       ELSE UNCHANGED <<canvas, history, historyIndex>>
    /\ UNCHANGED <<imageUrl, imgLoading, selectedColor, active, pending>>

setBlendMode(mode) ==
    /\ ~Busy
    /\ IF ActiveShape
       THEN /\ canvas' = [canvas EXCEPT ![active].gco = mode]
            /\ Saved(1)
       ELSE UNCHANGED <<canvas, history, historyIndex>>
    /\ UNCHANGED <<imageUrl, imgLoading, selectedColor, active, pending>>

\* the user drags the active object: fabric fires object:modified
ObjectModified(left) ==
    /\ ~Busy
    /\ active # 0
    /\ left # canvas[active].left
    /\ canvas' = [canvas EXCEPT ![active].left = left]
    /\ Saved(1)
    /\ UNCHANGED <<imageUrl, imgLoading, selectedColor, active, pending>>

\* the user clicks a selectable object, or the empty canvas
SelectObject(n) ==
    /\ ~Busy
    /\ n \in 1..Len(canvas)
    /\ canvas[n].selectable
    /\ n # active
    /\ active' = n
    /\ UNCHANGED <<imageUrl, imgLoading, selectedColor, canvas, history,
                   historyIndex, pending>>

ClearSelection ==
    /\ ~Busy
    /\ active # 0
    /\ active' = 0
    /\ UNCHANGED <<imageUrl, imgLoading, selectedColor, canvas, history,
                   historyIndex, pending>>

IsImage(o) == o.type = "image"

\* remove(obj) of every object that is no image; object:removed has no handler
resetCanvas ==
    /\ ~Busy
    /\ canvas' = SelectSeq(canvas, IsImage)
    /\ active' = IF active # 0 /\ IsImage(canvas[active])
                 THEN Cardinality({i \in 1..active : IsImage(canvas[i])})
                 ELSE 0
    /\ UNCHANGED <<imageUrl, imgLoading, selectedColor, history, historyIndex,
                   pending>>

\* canvas JSON a caller may hand to loadCanvasJSON
SavedDesigns ==
    {<<>>, <<ToObject(NewImage("sofa.png")), ToObject(NewRect(NoColor))>>}

loadCanvasJSON(json) ==
    /\ ~Busy
    /\ pending' = Append(pending, json)
    /\ UNCHANGED <<imageUrl, imgLoading, selectedColor, canvas, active, history,
                   historyIndex>>

\* the imageUrl prop changes: the effect disposes the canvas and makes a new one
ChangeImage(url) ==
    /\ ~Busy
    /\ url # imageUrl
    /\ imageUrl' = url
    /\ imgLoading' = (url # NoImage)
    /\ canvas' = <<>>
    /\ active' = 0
    /\ pending' = <<>>
    /\ UNCHANGED <<selectedColor, history, historyIndex>>

Editing == Len(history) + Len(pending) < EditWindow

\* a callback of the canvas or of a promise
Callback(Op, name) == Op /\ lastOp' = name /\ UNCHANGED <<loads, hvars, svars>>

\* a user operation of the short runs
User(Op, name) == Editing /\ Callback(Op, name)

Next ==
    \/ Callback(ImageLoaded, "ImageLoaded")
    \/ (NumShapes(canvas) < MaxShapes /\ User(AddRectangle, "addRectangle"))
    \/ (NumShapes(canvas) < MaxShapes /\ User(AddCircle, "addCircle"))
    \/ \E color \in Palette : User(SelectColor(color), "selectedColor")
    \/ \E opacity \in Opacities : User(setOpacity(opacity), "setOpacity")
    \/ \E mode \in BlendModes : User(setBlendMode(mode), "setBlendMode")
    \/ \E left \in Positions : User(ObjectModified(left), "object:modified")
    \/ \E n \in 1..Len(canvas) : User(SelectObject(n), "select")
    \/ User(ClearSelection, "select")
    \/ User(resetCanvas, "resetCanvas")
    \/ \E json \in SavedDesigns : User(loadCanvasJSON(json), "loadCanvasJSON")
    \/ \E url \in Images : User(ChangeImage(url), "imageUrl")
    \/ User(undo, "undo")
    \/ User(redo, "redo")
    \/ \E n \in 1..Len(pending) : Callback(LoadResolved(n), "loadFromJSON")

Spec == Init /\ [][Next]_vars

\* long runs: once the image is there, one rectangle is added and dragged back
\* and forth until the history is full; then come a few undo and redo calls
Full == Len(history) = MaxHistory

Counted(Op, name) ==
    /\ loads < MaxLoads
    /\ Full
    /\ Op
    /\ lastOp' = name
    /\ loads' = loads + 1
    /\ UNCHANGED <<hvars, svars>>

NextCap ==
    \/ Callback(ImageLoaded, "ImageLoaded")
    \/ (~imgLoading /\ NumShapes(canvas) = 0 /\ Callback(AddRectangle, "addRectangle"))
    \/ \E left \in Positions :
          pending = <<>> /\ Callback(ObjectModified(left), "object:modified")
    \/ \E n \in 1..Len(canvas) :
          ~IsImage(canvas[n]) /\ Callback(SelectObject(n), "select")
    \/ \E n \in 1..Len(pending) : Callback(LoadResolved(n), "loadFromJSON")
    \/ Counted(undo, "undo")
    \/ Counted(redo, "redo")

SpecCap == Init /\ [][NextCap]_vars

\* the updater of setRecentColors that keeps an earlier entry of the color
NextRecentColors_NoFilter(prev, color) ==
    SubSeq(<<color>> \o prev, 1, Min(RecentLimit, Len(prev) + 1))

\* the updater of setRecentColors that keeps every entry
NextRecentColors_NoSlice(prev, color) ==
    <<color>> \o SelectSeq(prev, LAMBDA c : c.id # color.id)

\* the updater handleColorSelect passes to setRecentColors
NextRecentColors(prev, color) ==
    LET filtered == SelectSeq(prev, LAMBDA c : c.id # color.id)
        all == <<color>> \o filtered
    IN  SubSeq(all, 1, Min(RecentLimit, Len(all)))

\* handleColorSelect of Home; the selectedColor prop of the canvas is the
\* hexColor of the selected color, and its effect runs when the prop changes
handleColorSelect(color) ==
    /\ recentColorsState' = NextRecentColors(recentColorsState, color)
    /\ selections' = Append(selections, color)
    /\ IF color.hexColor # selectedColor
       THEN SelectColor(color.hexColor)
       ELSE UNCHANGED cvars
    /\ lastOp' = "handleColorSelect"
    /\ UNCHANGED <<loads, mark, svars>>

\* the first selections go down the palette; then every color may be selected
NextHome ==
    \E color \in ColorItems :
        /\ Len(selections) < RecentLimit - 1 + MaxFree
        /\ Len(selections) < RecentLimit - 1 => color.id = Len(selections) + 1
        /\ handleColorSelect(color)

InitHome ==
    /\ Mounted(NoImage)
    /\ Rendered
    /\ ServerStarted

SpecHome == InitHome /\ [][NextHome]_vars

\* round trips: some edits, then one undo that has a snapshot to go back to,
\* then one redo, with no user edit after the undo; the loadFromJSON promises
\* resolve whenever they do
RoundUndo ==
    /\ mark.stage = "none"
    /\ pending = <<>>
    /\ historyIndex > 0
    /\ undo
    /\ lastOp' = "undo"
    /\ mark' = [stage |-> "undo", history |-> history,
                historyIndex |-> historyIndex, canvas |-> canvas]
    /\ UNCHANGED <<loads, recentColorsState, selections, svars>>

RoundRedo ==
    /\ mark.stage = "undo"
    /\ redo
    /\ lastOp' = "redo"
    /\ mark' = [mark EXCEPT !.stage = "redo"]
    /\ UNCHANGED <<loads, recentColorsState, selections, svars>>

Edit(Op, name) == mark.stage = "none" /\ User(Op, name)

NextRoundTrip ==
    \/ Callback(ImageLoaded, "ImageLoaded")
    \/ (NumShapes(canvas) < MaxShapes /\ Edit(AddRectangle, "addRectangle"))
    \/ (NumShapes(canvas) < MaxShapes /\ Edit(AddCircle, "addCircle"))
    \/ \E opacity \in Opacities : Edit(setOpacity(opacity), "setOpacity")
    \/ \E left \in Positions : Edit(ObjectModified(left), "object:modified")
    \/ RoundUndo
    \/ RoundRedo
    \/ \E n \in 1..Len(pending) : Callback(LoadResolved(n), "loadFromJSON")

SpecRoundTrip == Init /\ [][NextRoundTrip]_vars

(* ------------------------------------------------------------------ *)
(* The REST routes and the tables they work on                         *)
(* ------------------------------------------------------------------ *)

ProjectIds == {p.id : p \in projects}

\* insertProjectSchema.parse: name is required
ValidProject(name) == name # Missing

\* insertCanvasStateSchema.parse: canvasJson is required, zoom is optional
ValidCanvas(canvasJson) == canvasJson # Missing

\* references(() => projects.id): an insert of a row for project id is refused
ForeignKeyViolation(id) == id \notin ProjectIds

\* unique() on canvas_states.project_id: a second row for project id is refused
UniqueViolation_None(id) == FALSE

UniqueViolation(id) == \E c \in canvasStates : c.projectId = id

\* onDelete: 'cascade': the rows of a child table that survive the delete of project id
Cascade_None(rows, id) == rows

Cascade(rows, id) == {r \in rows : r.projectId # id}

\* limit(1): no row, or one of the matching rows
Limit1(rows) == IF rows = {} THEN {{}} ELSE {{r} : r \in rows}

\* orderBy(desc(projects.updatedAt)): the orders of the rows that never ascend
OrderByUpdatedDesc(rows) ==
    {s \in [1..Cardinality(rows) -> rows] :
        /\ \A i, j \in DOMAIN s : i # j => s[i] # s[j]
        /\ \A i, j \in DOMAIN s : i < j => s[i].updatedAt >= s[j].updatedAt}

Called(step, id, valid) == call' = [step |-> step, id |-> id, valid |-> valid]

Respond(route, id, status) == [NoResponse EXCEPT !.route = route, !.id = id, !.status = status]

\* fileFilter of the multer instance
fileFilter(file) == file.mimetype \in ALLOWED_MIME_TYPES

\* POST /api/upload: upload.single("image"), then the handler. An error of the
\* middleware (fileFilter, limits) goes to next(err) and never reaches the
\* handler; it carries no status, so the response is 500
Upload(file) ==
    /\ IF ~file.present
       THEN /\ resp' = Respond("POST /api/upload", Null, 400)
            /\ UNCHANGED <<uploads, nextId>>
       ELSE IF ~fileFilter(file) \/ file.large
       THEN /\ resp' = Respond("POST /api/upload", Null, 500)
            /\ UNCHANGED <<uploads, nextId>>
       ELSE /\ uploads' = uploads \cup {nextId}
            /\ nextId' = nextId + 1
            /\ resp' = [Respond("POST /api/upload", Null, 200) EXCEPT
                           !.path = {nextId}]
    /\ Called("POST /api/upload", Null, ~file.present \/ fileFilter(file))
    /\ UNCHANGED <<db, inflight>>

\* GET /api/projects
GetProjects ==
    /\ \E list \in OrderByUpdatedDesc(projects) :
          resp' = [Respond("GET /api/projects", Null, 200) EXCEPT !.list = list]
    /\ Called("GET /api/projects", Null, TRUE)
    /\ UNCHANGED <<db, nextId, inflight>>

\* GET /api/projects/:id that goes on to the other selects without a project row
GetProject_NoCheck(r, id) ==
    /\ inflight[r] = NoRequest
    /\ \E project \in Limit1({p \in projects : p.id = id}) :
          inflight' = [inflight EXCEPT ![r] =
              [NoRequest EXCEPT !.route = "GET /api/projects/:id",
                                !.id = id, !.pc = 1, !.project = project]]
    /\ UNCHANGED resp
    /\ Called("GET project", id, TRUE)
    /\ UNCHANGED <<db, nextId>>

\* GET /api/projects/:id, the select from projects
GetProject(r, id) ==
    /\ inflight[r] = NoRequest
    /\ \E project \in Limit1({p \in projects : p.id = id}) :
          IF project = {}
          THEN /\ resp' = Respond("GET /api/projects/:id", id, 404)
               /\ UNCHANGED inflight
          ELSE /\ inflight' = [inflight EXCEPT ![r] =
                      [NoRequest EXCEPT !.route = "GET /api/projects/:id",
                                        !.id = id, !.pc = 1, !.project = project]]
               /\ UNCHANGED resp
    /\ Called("GET project", id, TRUE)
    /\ UNCHANGED <<db, nextId>>

\* the select from project_images
GetImages(r) ==
    /\ inflight[r].route = "GET /api/projects/:id"
    /\ inflight[r].pc = 1
    /\ inflight' = [inflight EXCEPT ![r].pc = 2,
          ![r].images = {i \in projectImages : i.projectId = inflight[r].id}]
    /\ Called("GET images", inflight[r].id, TRUE)
    /\ UNCHANGED <<db, nextId, resp>>

\* the select from color_regions
GetRegions(r) ==
    /\ inflight[r].route = "GET /api/projects/:id"
    /\ inflight[r].pc = 2
    /\ inflight' = [inflight EXCEPT ![r].pc = 3,
          ![r].regions = {g \in colorRegions : g.projectId = inflight[r].id}]
    /\ Called("GET regions", inflight[r].id, TRUE)
    /\ UNCHANGED <<db, nextId, resp>>

\* the select from canvas_states and the response
GetCanvas(r) ==
    /\ inflight[r].route = "GET /api/projects/:id"
    /\ inflight[r].pc = 3
    /\ \E canvasState \in Limit1({c \in canvasStates : c.projectId = inflight[r].id}) :
          resp' = [Respond("GET /api/projects/:id", inflight[r].id, 200) EXCEPT
                      !.project = inflight[r].project,
                      !.images = inflight[r].images,
                      !.regions = inflight[r].regions,
                      !.canvas = canvasState]
    /\ inflight' = [inflight EXCEPT ![r] = NoRequest]
    /\ Called("GET canvas", inflight[r].id, TRUE)
    /\ UNCHANGED <<db, nextId>>

\* the result of insertProjectSchema.parse: id, createdAt and updatedAt are
\* omitted from the schema, and keys outside the schema are stripped
InsertProjectSchema_KeepAll(body) == body

InsertProjectSchema(body) ==
    [name |-> body.name, id |-> Null, createdAt |-> NoTime, updatedAt |-> NoTime]

\* insert(projects).values(validated): the column defaults fill the absent keys;
\* two rows may not have the same id (primaryKey)
InsertProject(validated) ==
    [id |-> IF validated.id = Null THEN nextId ELSE validated.id,
     name |-> validated.name,
     createdAt |-> IF validated.createdAt = NoTime THEN clock ELSE validated.createdAt,
     updatedAt |-> IF validated.updatedAt = NoTime THEN clock ELSE validated.updatedAt]

\* POST /api/projects that inserts the body before it validates it
PostProject_WriteFirst(body) ==
    /\ LET newProject == InsertProject(InsertProjectSchema(body))
       IN  /\ projects' = projects \cup {newProject}
           /\ resp' = IF ~ValidProject(body.name)
                      THEN Respond("POST /api/projects", Null, 400)
                      ELSE [Respond("POST /api/projects", Null, 200) EXCEPT
                               !.project = {newProject}]
    /\ nextId' = nextId + 1
    /\ Called("POST /api/projects", Null, ValidProject(body.name))
    /\ UNCHANGED <<projectImages, colorRegions, recentColors, canvasStates,
                   inflight>>

\* POST /api/projects
PostProject(body) ==
    /\ IF ~ValidProject(body.name)
       THEN /\ resp' = Respond("POST /api/projects", Null, 400)
            /\ UNCHANGED <<projects, nextId>>
       ELSE LET newProject == InsertProject(InsertProjectSchema(body))
            IN  IF newProject.id \in ProjectIds
                THEN /\ resp' = Respond("POST /api/projects", Null, 500)
                     /\ UNCHANGED <<projects, nextId>>
                ELSE /\ projects' = projects \cup {newProject}
                     /\ resp' = [Respond("POST /api/projects", Null, 200) EXCEPT
                                    !.project = {newProject}]
                     /\ nextId' = nextId + 1
    /\ Called("POST /api/projects", Null, ValidProject(body.name))
    /\ UNCHANGED <<projectImages, colorRegions, recentColors, canvasStates,
                   inflight>>

\* PUT /api/projects/:id
PutProject(id, name) ==
    /\ IF ~ValidProject(name)
       THEN /\ resp' = Respond("PUT /api/projects/:id", id, 400)
            /\ UNCHANGED projects
       ELSE LET updated == {[p EXCEPT !.name = name, !.updatedAt = clock] :
                               p \in {q \in projects : q.id = id}}
            IN  /\ projects' = {p \in projects : p.id # id} \cup updated
                /\ \E first \in Limit1(updated) :
                      resp' = IF first = {}
                              THEN Respond("PUT /api/projects/:id", id, 404)
                              ELSE [Respond("PUT /api/projects/:id", id, 200) EXCEPT
                                       !.project = first]
    /\ Called("PUT /api/projects/:id", id, ValidProject(name))
    /\ UNCHANGED <<projectImages, colorRegions, recentColors, canvasStates, nextId,
                   inflight>>

\* DELETE /api/projects/:id; the child tables cascade
DeleteProject(id) ==
    /\ projects' = {p \in projects : p.id # id}
    /\ projectImages' = Cascade(projectImages, id)
    /\ colorRegions' = Cascade(colorRegions, id)
    /\ recentColors' = Cascade(recentColors, id)
    /\ canvasStates' = Cascade(canvasStates, id)
    /\ resp' = Respond("DELETE /api/projects/:id", id, 200)
    /\ Called("DELETE /api/projects/:id", id, TRUE)
    /\ UNCHANGED <<nextId, inflight>>

\* POST /api/projects/:id/canvas, the parse and the select of the existing row
PostCanvas(r, id, canvasJson, zoom) ==
    /\ inflight[r] = NoRequest
    /\ IF ~ValidCanvas(canvasJson)
       THEN /\ resp' = Respond("POST /api/projects/:id/canvas", id, 400)
            /\ UNCHANGED inflight
       ELSE /\ \E existing \in Limit1({c \in canvasStates : c.projectId = id}) :
                  inflight' = [inflight EXCEPT ![r] =
                      [NoRequest EXCEPT !.route = "POST /api/projects/:id/canvas",
                                        !.id = id, !.pc = 1,
                                        !.canvasJson = canvasJson, !.zoom = zoom,
                                        !.existing = existing]]
            /\ UNCHANGED resp
    /\ Called("POST canvas select", id, ValidCanvas(canvasJson))
    /\ UNCHANGED <<db, nextId>>

\* the update of the existing row, or the insert of a new one, and the response
SaveCanvas(r) ==
    LET id == inflight[r].id
        canvasJson == inflight[r].canvasJson
        zoom == inflight[r].zoom
    IN  /\ inflight[r].route = "POST /api/projects/:id/canvas"
        /\ inflight[r].pc = 1
        /\ IF inflight[r].existing # {}
           THEN LET updated ==
                      {[c EXCEPT !.canvasJson = canvasJson,
                                 !.zoom = IF zoom = Missing THEN @ ELSE zoom,
                                 !.updatedAt = clock] :
                         c \in {d \in canvasStates : d.projectId = id}}
                IN  /\ canvasStates' =
                          {c \in canvasStates : c.projectId # id} \cup updated
                    /\ \E first \in Limit1(updated) :
                          resp' = [Respond("POST /api/projects/:id/canvas", id, 200)
                                      EXCEPT !.canvas = first]
                    /\ UNCHANGED nextId
           ELSE IF ForeignKeyViolation(id) \/ UniqueViolation(id)
           THEN /\ resp' = Respond("POST /api/projects/:id/canvas", id, 500)
                /\ UNCHANGED <<canvasStates, nextId>>
           ELSE /\ LET newState ==
                         [id |-> nextId, projectId |-> id, canvasJson |-> canvasJson,
                          zoom |-> IF zoom = Missing THEN DefaultZoom ELSE zoom,
                          updatedAt |-> clock]
                   IN  /\ canvasStates' = canvasStates \cup {newState}
                       /\ resp' = [Respond("POST /api/projects/:id/canvas", id, 200)
                                      EXCEPT !.canvas = {newState}]
                /\ nextId' = nextId + 1
        /\ inflight' = [inflight EXCEPT ![r] = NoRequest]
        /\ Called("POST canvas save", id, TRUE)
        /\ UNCHANGED <<projects, projectImages, colorRegions, recentColors>>

\* the database the server starts on: empty, or left by an earlier run with a
\* project, rows for it in the child tables, and a recent color of no project
SeededDatabase ==
    /\ projects = {[id |-> 1, name |-> "sofa", createdAt |-> 0, updatedAt |-> 0]}
    /\ projectImages = {[id |-> "image-1", projectId |-> 1]}
    /\ colorRegions = {[id |-> "region-1", projectId |-> 1]}
    /\ recentColors = {[id |-> "color-1", projectId |-> 1],
                       [id |-> "color-2", projectId |-> Null]}
    /\ canvasStates = {}
    /\ uploads = {}
    /\ nextId = 2
    /\ clock = 0
    /\ inflight = [r \in 1..MaxRequests |-> NoRequest]
    /\ views = [r \in 1..MaxRequests |-> {}]
    /\ call = [step |-> "listen", id |-> Null, valid |-> TRUE]
    /\ resp = NoResponse

InitServer ==
    /\ Mounted(NoImage)
    /\ Rendered
    /\ ServerStarted \/ SeededDatabase

\* the :id of a request
Ids == 1..MaxIds

\* a request takes the first free slot
Free(r) == inflight[r] = NoRequest /\ \A q \in 1..(r - 1) : inflight[q] # NoRequest

\* what the database holds for project id: its row and the rows of the three
\* tables the handler of GET /api/projects/:id reads for it
View(id, projectRows, imageRows, regionRows, canvasRows) ==
    [project |-> {p \in projectRows : p.id = id},
     images |-> {i \in imageRows : i.projectId = id},
     regions |-> {g \in regionRows : g.projectId = id},
     canvas |-> {c \in canvasRows : c.projectId = id}]

\* what a response says the database holds for its project
Described(response) ==
    [project |-> response.project,
     images |-> response.images,
     regions |-> response.regions,
     canvas |-> response.canvas]

\* every step of the server adds the database it leaves to the views of the
\* GET /api/projects/:id requests in flight
Viewed ==
    views' = [r \in 1..MaxRequests |->
        IF inflight'[r].route # "GET /api/projects/:id"
        THEN {}
        ELSE (IF inflight[r].route = "GET /api/projects/:id" THEN views[r] ELSE {})
             \cup {View(inflight'[r].id, projects', projectImages', colorRegions',
                        canvasStates')}]

\* a later database call of a request accepted before
Server(Op) == Op /\ Viewed /\ UNCHANGED <<cvars, lastOp, loads, hvars, clock, uploads>>

\* the server accepts a request and runs its handler up to the first await
Accept(Op) ==
    /\ clock < MaxClock
    /\ Op
    /\ Viewed
    /\ clock' = clock + 1
    /\ UNCHANGED <<cvars, lastOp, loads, hvars, uploads>>

\* the server accepts an upload
AcceptUpload(Op) ==
    /\ clock < MaxClock
    /\ Op
    /\ Viewed
    /\ clock' = clock + 1
    /\ UNCHANGED <<cvars, lastOp, loads, hvars>>

NextServer ==
    \/ \E file \in UploadFiles : AcceptUpload(Upload(file))
    \/ Accept(GetProjects)
    \/ \E r \in 1..MaxRequests, id \in Ids : Free(r) /\ Accept(GetProject(r, id))
    \/ \E r \in 1..MaxRequests : Server(GetImages(r))
    \/ \E r \in 1..MaxRequests : Server(GetRegions(r))
    \/ \E r \in 1..MaxRequests : Server(GetCanvas(r))
    \/ \E body \in ProjectBodies : Accept(PostProject(body))
    \/ \E id \in Ids, name \in ProjectNames \cup {Missing} : Accept(PutProject(id, name))
    \/ \E id \in Ids : Accept(DeleteProject(id))
    \/ \E r \in 1..MaxRequests, id \in Ids, body \in CanvasBodies :
          Free(r) /\ Accept(PostCanvas(r, id, body.canvasJson, body.zoom))
    \/ \E r \in 1..MaxRequests : Server(SaveCanvas(r))

SpecServer == InitServer /\ [][NextServer]_vars

(* ------------------------------------------------------------------ *)
(* Properties of the history buffer                                    *)
(* ------------------------------------------------------------------ *)

\* saveHistory calls of the step just taken, by the handler that ran
Pushes ==
    CASE lastOp' \in {"addRectangle", "addCircle"} -> 2
      [] lastOp' \in {"ImageLoaded", "object:modified"} -> 1
      [] lastOp' \in {"selectedColor", "setOpacity", "setBlendMode"} ->
            IF ActiveShape THEN 1 ELSE 0
      [] lastOp' = "loadFromJSON" -> Len(canvas')
      [] OTHER -> 0

\* the entries up to the cursor followed by k copies of the new canvas content
Pushed(k) ==
    SubSeq(history, 1, historyIndex + 1) \o [j \in 1..k |-> ToJSON(canvas')]

\* no loadFromJSON and no image load is outstanding
Idle == pending = <<>> /\ ~imgLoading

\* C1: the history never holds more than 50 snapshots.
C1_HistoryBounded == Len(history) <= MaxHistory

\* a push has overflowed: the history is full and its first entry, the
\* snapshot of the image alone, is gone
C1_Witness ==
    /\ Len(history) = MaxHistory
    /\ Len(history[1]) = 2
    /\ lastOp = "object:modified"

\* C2: a push with the cursor at c and fewer than 50 entries leaves the old
\* entries 0..c followed by the new snapshot, the cursor on the new snapshot,
\* and nothing for a redo to do.
C2_PushTruncates ==
    [][(Pushes >= 1 /\ historyIndex + 1 + Pushes <= MaxHistory) =>
          /\ history' = Pushed(Pushes)
          /\ historyIndex' = Len(history') - 1
          /\ history'[historyIndex' + 1] = ToJSON(canvas')
          /\ historyIndex' >= Len(history') - 1]_vars

\* a drag pushed while the cursor was behind the end: an undo had moved it to
\* entry 0 and its load is still outstanding
C2_Witness ==
    /\ lastOp = "object:modified"
    /\ Len(history) = 2
    /\ historyIndex = 1
    /\ Len(pending) = 1
    /\ pending[1] = history[1]
    /\ history[2] # history[1]

\* C3: a push that makes the history exceed 50 drops exactly the oldest
\* entries, keeps the order of the others, and leaves the cursor on the snapshot
\* just pushed, the last of the 50.
C3_OverflowDropsOldest ==
    [][(Pushes >= 1 /\ historyIndex + 1 + Pushes > MaxHistory) =>
          LET full == Pushed(Pushes)
          IN  /\ history' = SubSeq(full, Len(full) - MaxHistory + 1, Len(full))
              /\ (Len(full) = MaxHistory + 1 => history' = Tail(full))
              /\ historyIndex' = MaxHistory - 1
              /\ history'[historyIndex' + 1] = ToJSON(canvas')]_vars

\* the pushes of a restored snapshot overflowed the full history
C3_Witness ==
    /\ Len(history) = MaxHistory
    /\ historyIndex = MaxHistory - 1
    /\ Len(history[1]) = 2
    /\ lastOp = "loadFromJSON"
    /\ loads = MaxLoads

\* C4: undo with the cursor above 0 moves the cursor back by one and loads the
\* snapshot at the new cursor; with the cursor at 0 or below it changes neither
\* the cursor nor the canvas. The load puts that snapshot on the canvas.
C4_Undo ==
    [][/\ lastOp' = "undo" =>
            /\ IF historyIndex > 0
               THEN /\ historyIndex' = historyIndex - 1
                    /\ pending' = Append(pending, history[historyIndex' + 1])
               ELSE UNCHANGED <<historyIndex, pending>>
            /\ UNCHANGED <<canvas, history>>
       /\ lastOp' = "loadFromJSON" =>
            \E n \in 1..Len(pending) :
                /\ pending' = Remove(pending, n)
                /\ ToJSON(canvas') = pending[n]]_vars

\* undo has moved the cursor from 2 to 1 and asked for snapshot 1
C4_Witness ==
    /\ lastOp = "undo"
    /\ Len(history) = 3
    /\ historyIndex = 1
    /\ Len(pending) = 1
    /\ pending[1] = history[2]

\* C5: redo with the cursor below the last entry moves the cursor forward by
\* one and loads the snapshot at the new cursor; otherwise it changes nothing.
C5_Redo ==
    [][lastOp' = "redo" =>
          /\ IF historyIndex < Len(history) - 1
             THEN /\ historyIndex' = historyIndex + 1
                  /\ pending' = Append(pending, history[historyIndex' + 1])
             ELSE UNCHANGED <<historyIndex, pending>>
          /\ UNCHANGED <<canvas, history>>]_vars

\* redo has moved the cursor from 0 back to 1 while the load of the undo before
\* it is still outstanding
C5_Witness ==
    /\ lastOp = "redo"
    /\ Len(history) = 2
    /\ historyIndex = 1
    /\ Len(pending) = 2
    /\ pending[2] = history[2]

\* C6: every operation that changes the canvas content pushes a snapshot of
\* the result, so whenever no operation is in progress the snapshot at the
\* cursor is the canvas content.
C6_SnapshotAtCursorIsCanvas ==
    (Idle /\ history # <<>>) => history[historyIndex + 1] = ToJSON(canvas)

(* ------------------------------------------------------------------ *)
(* Properties of the routes                                            *)
(* ------------------------------------------------------------------ *)

\* the canvas save of slot r makes its write and responds in this step
Saving(r) ==
    /\ inflight[r].route = "POST /api/projects/:id/canvas"
    /\ inflight'[r] = NoRequest

\* projects that rows of a child table reference
Referenced(rows) == {c.projectId : c \in rows} \ {Null}

ChildReferences ==
    Referenced(projectImages) \cup Referenced(colorRegions)
        \cup Referenced(recentColors) \cup Referenced(canvasStates)

\* C7: each project has at most one canvas state row; a save for a project
\* that has one replaces the content of that row with the payload and adds no
\* second row.
C7_OneCanvasStatePerProject ==
    [][/\ \A id \in Ids :
            Cardinality({c \in canvasStates' : c.projectId = id}) <= 1
       /\ \A r \in 1..MaxRequests :
            LET id == inflight[r].id
                old == {c \in canvasStates : c.projectId = id}
            IN  (Saving(r) /\ inflight[r].existing # {} /\ old # {}) =>
                  \E c \in old :
                    LET new == [c EXCEPT
                                  !.canvasJson = inflight[r].canvasJson,
                                  !.zoom = IF inflight[r].zoom = Missing
                                           THEN @ ELSE inflight[r].zoom,
                                  !.updatedAt = clock]
                    IN  /\ canvasStates' = (canvasStates \ {c}) \cup {new}
                        /\ Cardinality(canvasStates') = Cardinality(canvasStates)
                        /\ resp'.status = 200
                        /\ resp'.canvas = {new}]_vars

\* a save has replaced the content of the row that another save, still
\* waiting for its write, had selected
C7_Witness ==
    \E r \in 1..MaxRequests : \E e \in inflight[r].existing :
        \E c \in canvasStates :
            /\ c.id = e.id
            /\ c.projectId = e.projectId
            /\ c.canvasJson # e.canvasJson
            /\ Cardinality(canvasStates) = 1
            /\ resp.status = 200
            /\ resp.canvas = {c}

\* C8: after a DELETE of a project no row of a child table references it, and
\* in every state each child row with a projectId references an existing
\* project.
C8_DeleteCascades ==
    [][/\ call'.step = "DELETE /api/projects/:id" =>
            /\ resp'.status = 200
            /\ call'.id \notin ProjectIds'
            /\ call'.id \notin ChildReferences'
       /\ ChildReferences \subseteq ProjectIds
       /\ ChildReferences' \subseteq ProjectIds']_vars

\* the project of the seeded database was deleted: the rows that referenced
\* it are gone from the child tables, the recent color of no project is left
C8_Witness ==
    /\ call = [step |-> "DELETE /api/projects/:id", id |-> 1, valid |-> TRUE]
    /\ resp.status = 200
    /\ projects = {}
    /\ projectImages = {}
    /\ colorRegions = {}
    /\ canvasStates = {}
    /\ recentColors = {[id |-> "color-2", projectId |-> Null]}

\* C9: GET /api/projects/:id for an id that matches no project row responds
\* 404 with no project data, and runs no further query.
C9_GetMissingIs404 ==
    [][(call'.step = "GET project" /\ call'.id \notin ProjectIds) =>
          /\ resp' = Respond("GET /api/projects/:id", call'.id, 404)
          /\ resp'.project = {}
          /\ resp'.images = {}
          /\ resp'.regions = {}
          /\ resp'.canvas = {}
          /\ UNCHANGED <<inflight, db>>]_vars

\* a GET of project 1 after it was created and deleted was answered 404
C9_Witness ==
    /\ call = [step |-> "GET project", id |-> 1, valid |-> TRUE]
    /\ resp = Respond("GET /api/projects/:id", 1, 404)
    /\ nextId > 1
    /\ 1 \notin ProjectIds

\* C10: PUT, DELETE and a valid canvas POST addressed to a project id that
\* does not exist respond 404 and leave the database unchanged.
C10_MissingProjectIs404 ==
    [][(/\ call'.step \in {"PUT /api/projects/:id", "DELETE /api/projects/:id",
                            "POST canvas save"}
        /\ call'.valid
        /\ call'.id \notin ProjectIds) =>
          /\ resp'.status = 404
          /\ resp'.id = call'.id
          /\ UNCHANGED db]_vars

\* C11: a POST /api/projects, PUT /api/projects/:id or canvas POST whose body
\* fails validation responds 400 and writes nothing: the tables are the same
\* after the request as before it, and no handler is left waiting.
C11_InvalidBodyIs400 ==
    [][(/\ call'.step \in {"POST /api/projects", "PUT /api/projects/:id",
                            "POST canvas select"}
        /\ ~call'.valid) =>
          /\ resp'.status = 400
          /\ resp'.project = {}
          /\ resp'.canvas = {}
          /\ UNCHANGED <<db, nextId, inflight>>]_vars

\* a POST without a name was refused while the table held a project
C11_Witness ==
    /\ call = [step |-> "POST /api/projects", id |-> Null, valid |-> FALSE]
    /\ resp = Respond("POST /api/projects", Null, 400)
    /\ Cardinality(projects) = 1
    /\ nextId = 2

\* C12: an upload whose file has a MIME type outside the allow-list is
\* answered 400, with no path in the response, and no file is written.
C12_BadMimeIs400 ==
    [][(call'.step = "POST /api/upload" /\ ~call'.valid) =>
          /\ resp'.status = 400
          /\ resp'.path = {}
          /\ UNCHANGED uploads]_vars

\* C13: POST /api/projects with a valid body returns the new project with an
\* id the server generated, different from the id of every other project, and
\* with createdAt and updatedAt equal to the time of creation; id, createdAt
\* and updatedAt of the body do not reach the stored row.
C13_ServerGeneratedIdAndTimes ==
    [][(call'.step = "POST /api/projects" /\ call'.valid) =>
          \E p \in projects' :
              /\ resp'.status = 200
              /\ resp'.project = {p}
              /\ projects' = projects \cup {p}
              /\ p.id = nextId
              /\ p.id \notin ProjectIds
              /\ p.createdAt = clock
              /\ p.updatedAt = clock]_vars

\* the body that names id 1 and the client's timestamps was stored as project
\* 2 with the time of the server, next to project 1
C13_Witness ==
    /\ call = [step |-> "POST /api/projects", id |-> Null, valid |-> TRUE]
    /\ 1 \in ProjectIds
    /\ \E p \in resp.project :
          /\ p \in projects
          /\ p.name = "chair"
          /\ p.id = 2
          /\ p.createdAt # ClientTime
          /\ p.updatedAt = p.createdAt

\* C14: a 200 response of GET /api/projects/:id describes the database as it
\* was at one moment between the first and the last select of the request: the
\* project row, and exactly the images, the regions and the canvas state that
\* referenced it at that moment.
C14_GetDescribesOneState ==
    [][\A r \in 1..MaxRequests :
          (/\ inflight[r].route = "GET /api/projects/:id"
           /\ inflight'[r] = NoRequest
           /\ resp'.status = 200) => Described(resp') \in views[r]]_vars

\* the canvas save that completes in slot r overlapped another one for the same
\* project: the other is still between its select and its write, or it wrote
\* the row after the select of r
Overlapped(r) ==
    \/ \E q \in 1..MaxRequests \ {r} :
          /\ inflight[q].route = "POST /api/projects/:id/canvas"
          /\ inflight[q].id = inflight[r].id
    \/ inflight[r].existing \notin
          Limit1({c \in canvasStates : c.projectId = inflight[r].id})

\* C15: a valid canvas save for an existing project that overlaps another one
\* for the same project completes with a success response carrying a canvas
\* state row, and leaves the project with exactly one canvas state row, which
\* holds the payload of one of the two requests.
C15_OverlappingSavesSucceed ==
    [][\A r \in 1..MaxRequests :
          LET id == inflight[r].id
              before == {c \in canvasStates : c.projectId = id}
              after == {c \in canvasStates' : c.projectId = id}
          IN  (Saving(r) /\ id \in ProjectIds /\ Overlapped(r)) =>
                /\ resp'.status = 200
                /\ resp'.canvas # {}
                /\ Cardinality(after) = 1
                /\ \A c \in after :
                      c.canvasJson \in {inflight[r].canvasJson}
                                         \cup {b.canvasJson : b \in before}]_vars

\* C17: addRectangle or addCircle, called with the cursor at the last history
\* entry and that entry being the canvas content, accounts for exactly one
\* history entry: the snapshot a single undo loads afterwards is the canvas
\* content from before the shape was added.
C17_AddIsOneUndoStep ==
    [][(/\ lastOp' \in {"addRectangle", "addCircle"}
        /\ history # <<>>
        /\ historyIndex = Len(history) - 1
        /\ history[historyIndex + 1] = ToJSON(canvas)) =>
          /\ Len(history') = Len(history) + 1
          /\ historyIndex' = historyIndex + 1
          /\ history'[historyIndex'] = ToJSON(canvas)]_vars

\* C18: the cursor is -1 exactly when the history is empty, and otherwise
\* 0 <= cursor <= length - 1.
C18_CursorInRange ==
    /\ historyIndex = -1 <=> history = <<>>
    /\ history # <<>> => 0 <= historyIndex /\ historyIndex <= Len(history) - 1

\* an undo has left the cursor below the last entry
C18_Witness ==
    /\ lastOp = "undo"
    /\ history # <<>>
    /\ 0 <= historyIndex
    /\ historyIndex < Len(history) - 1

\* C19: when the imageUrl prop changes, the history and the cursor start over.
C19_HistoryStartsOverWithImage ==
    [][lastOp' = "imageUrl" => history' = <<>> /\ historyIndex' = -1]_vars

\* C16: undo followed by redo is a round trip: once the redo has been called
\* and every snapshot has been replayed, the cursor, the history and the canvas
\* content are what they were before the undo (the canvas content then being
\* the snapshot at the cursor).
C16_UndoRedoRoundTrip ==
    (/\ mark.stage = "redo"
     /\ pending = <<>>
     /\ mark.history[mark.historyIndex + 1] = ToJSON(mark.canvas)) =>
        /\ historyIndex = mark.historyIndex
        /\ history = mark.history
        /\ ToJSON(canvas) = ToJSON(mark.canvas)

\* the positions in the selections of the last selection of each color id
LastSelections ==
    {i \in 1..Len(selections) :
        \A j \in (i + 1)..Len(selections) : selections[j].id # selections[i].id}

\* the distinct selected colors, most recently selected first
MostRecentFirst ==
    [k \in 1..Cardinality(LastSelections) |->
        selections[CHOOSE i \in LastSelections :
            Cardinality({j \in LastSelections : j > i}) = k - 1]]

\* C20: recentColors is the first 8 entries of the distinct selected colors
\* (distinct by id), most recently selected first: it has at most 8 entries, no
\* color id twice, and its first entry is the color selected last.
C20_RecentColors ==
    /\ recentColorsState =
          SubSeq(MostRecentFirst, 1, Min(RecentLimit, Len(MostRecentFirst)))
    /\ Len(recentColorsState) <= RecentLimit
    /\ \A i, j \in 1..Len(recentColorsState) :
          recentColorsState[i].id = recentColorsState[j].id => i = j
    /\ selections # <<>> => recentColorsState[1] = selections[Len(selections)]

\* nine colors were selected, one of them twice, and the color selected
\* first has left the full list
C20_Witness ==
    /\ Cardinality(LastSelections) = RecentLimit + 1
    /\ Len(selections) > RecentLimit + 1
    /\ Len(recentColorsState) = RecentLimit
    /\ \A k \in 1..RecentLimit : recentColorsState[k].id # selections[1].id

====
